---- MODULE Spec2Model ----
(***************************************************************************)
(* Day18p2.cpp: the two-machine interpreter of Advent of Code 2017, day 18 *)
(* part 2.  Program text is parsed into instructions, two State objects    *)
(* run the same program with register p = 0 and p = 1, and the loop of     *)
(* solve_part2 steps both, drains their output queues into each other's    *)
(* input queue and decides whether to stop.                                *)
(*                                                                         *)
(* A std::string is a sequence of one-character strings, positions in the  *)
(* C++ code are 0-based and are shifted by one where a sequence is read.   *)
(* Value is int64_t and pc is int; the program texts enumerated below keep *)
(* every value within a few thousand for the number of turns explored, so  *)
(* no arithmetic here reaches the width of either type.                    *)
(***************************************************************************)
EXTENDS Integers, Sequences, FiniteSets, TLC

VARIABLES lines, program, s0, s1, p1SendCount, r0, r1, at, outcome,
          turn, steps, blocked, sentLog, recvLog

vars == <<lines, program, s0, s1, p1SendCount, r0, r1, at, outcome,
          turn, steps, blocked, sentLog, recvLog>>

(* Number of turns of the while(true) loop that are explored. *)
MaxTurns == 12

(***************************************************************************)
(* Character classes and std::string operations used by the parser.        *)
(***************************************************************************)
Lower == {"a", "b", "c", "d", "e", "f", "g", "h", "i", "j", "k", "l", "m",
          "n", "o", "p", "q", "r", "s", "t", "u", "v", "w", "x", "y", "z"}

DigitChars == <<"0", "1", "2", "3", "4", "5", "6", "7", "8", "9">>

Digits == {DigitChars[i] : i \in 1..10}

DigitVal(c) == (CHOOSE i \in 1..10 : DigitChars[i] = c) - 1

(* string::npos, standing for a position larger than any string length. *)
Npos == 2147483647

(* The largest int, the range stoi accepts. *)
IntMax == 2147483647

Min(a, b) == IF a < b THEN a ELSE b

(* s.find(ch, from): the first position >= from holding ch, or npos. *)
Find(s, ch, from) ==
    LET hits == {i \in from..(Len(s) - 1) : s[i + 1] = ch}
    IN  IF hits = {} THEN Npos
        ELSE CHOOSE i \in hits : \A j \in hits : i <= j

(* s.substr(pos, n): throws std::out_of_range when pos > size. *)
SubstrThrows(s, pos) == pos > Len(s)

Substr(s, pos, n) == SubSeq(s, pos + 1, pos + Min(n, Len(s) - pos))

(***************************************************************************)
(* std::stoi: skip leading white space, take an optional sign, then the    *)
(* longest run of decimal digits; what follows the digits is ignored.      *)
(* No digit: std::invalid_argument.  Outside int: std::out_of_range.       *)
(***************************************************************************)
(* The characters isspace accepts in the "C" locale: blank, \t, \n, \v,  *)
(* \f and \r; the vertical tab is written as the character itself.       *)
Spaces == {" ", "\t", "\n", "", "\f", "\r"}

RECURSIVE SkipSpace(_)
SkipSpace(s) ==
    IF s # <<>> /\ Head(s) \in Spaces THEN SkipSpace(Tail(s)) ELSE s

RECURSIVE DigitRun(_)
DigitRun(s) ==
    IF s # <<>> /\ Head(s) \in Digits
    THEN <<Head(s)>> \o DigitRun(Tail(s))
    ELSE <<>>

RECURSIVE Magnitude(_, _)
Magnitude(ds, acc) ==
    IF ds = <<>> THEN acc
    ELSE Magnitude(Tail(ds), acc * 10 + DigitVal(Head(ds)))

RECURSIVE StripZeros(_)
StripZeros(ds) ==
    IF Len(ds) > 1 /\ Head(ds) = "0" THEN StripZeros(Tail(ds)) ELSE ds

(* Whether the digits ds (no leading zero) denote a magnitude an int holds. *)
InIntRange(ds, neg) ==
    \/ Len(ds) <= 9
    \/ /\ Len(ds) = 10
       /\ LET high == Magnitude(SubSeq(ds, 1, 9), 0)
              last == DigitVal(ds[10])
          IN  \/ high < IntMax \div 10
              \/ /\ high = IntMax \div 10
                 /\ last <= (IntMax % 10) + (IF neg THEN 1 ELSE 0)

stoi(s) ==
    LET t    == SkipSpace(s)
        neg  == t # <<>> /\ Head(t) = "-"
        body == IF t # <<>> /\ Head(t) \in {"-", "+"} THEN Tail(t) ELSE t
        ds   == StripZeros(DigitRun(body))
    IN  IF ds = <<>> \/ ~InIntRange(ds, neg) THEN [ok |-> FALSE]
        ELSE IF neg
             THEN [ok |-> TRUE,
                   v |-> (0 - Magnitude(SubSeq(ds, 1, Len(ds) - 1), 0)) * 10
                         - DigitVal(ds[Len(ds)])]
             ELSE [ok |-> TRUE, v |-> Magnitude(ds, 0)]

(***************************************************************************)
(* Operand = variant<Value, Register>.                                     *)
(***************************************************************************)
ValueOperand(v) == [tag |-> "Value", val |-> v]

RegisterOperand(c) == [tag |-> "Register", reg |-> c]

(* parseOperand: s[0] of an empty std::string is the terminating '\0'. *)
parseOperand(s) ==
    IF s # <<>> /\ s[1] \in Lower
    THEN [ok |-> TRUE, op |-> RegisterOperand(s[1])]
    ELSE LET v == stoi(s)
         IN  IF v.ok THEN [ok |-> TRUE, op |-> ValueOperand(v.v)]
             ELSE [ok |-> FALSE]

Mnemonics == {<<"s", "n", "d">>, <<"s", "e", "t">>, <<"a", "d", "d">>,
              <<"m", "u", "l">>, <<"m", "o", "d">>, <<"r", "c", "v">>,
              <<"j", "g", "z">>}

OpName(is) == is[1] \o is[2] \o is[3]

(***************************************************************************)
(* parseInstr.  Both operands are parsed before the mnemonic is looked at; *)
(* y is a default-constructed Operand, the Value 0, unless a second        *)
(* operand is found after position 5.                                      *)
(***************************************************************************)
parseInstr(instrStr) ==
    LET is     == Substr(instrStr, 0, 3)
        sepPos == Find(instrStr, " ", 5)
    IN  IF SubstrThrows(instrStr, 4) THEN [ok |-> FALSE]
        ELSE
        LET xs == Substr(instrStr, 4, sepPos - 4)
            x  == parseOperand(xs)
        IN  IF ~x.ok THEN [ok |-> FALSE]
            ELSE
            LET y == IF sepPos # Npos
                     THEN parseOperand(Substr(instrStr, sepPos + 1, Npos))
                     ELSE [ok |-> TRUE, op |-> ValueOperand(0)]
            IN  IF ~y.ok THEN [ok |-> FALSE]
                ELSE IF is \notin Mnemonics THEN [ok |-> FALSE]
                ELSE IF is = <<"s", "n", "d">>
                     THEN [ok |-> TRUE, instr |-> [op |-> "snd", x |-> x.op]]
                ELSE IF is = <<"j", "g", "z">>
                     THEN [ok |-> TRUE,
                           instr |-> [op |-> "jgz", x |-> x.op, y |-> y.op]]
                ELSE IF x.op.tag # "Register" THEN [ok |-> FALSE]
                ELSE IF is = <<"r", "c", "v">>
                     THEN [ok |-> TRUE,
                           instr |-> [op |-> "rcv", x |-> x.op.reg]]
                ELSE [ok |-> TRUE,
                      instr |-> [op |-> OpName(is), x |-> x.op.reg,
                                 y |-> y.op]]

(* parseProgram: one instruction per line, in order; any throw aborts. *)
RECURSIVE parseProgram(_)
parseProgram(ls) ==
    IF ls = <<>> THEN [ok |-> TRUE, p |-> <<>>]
    ELSE LET i == parseInstr(Head(ls))
         IN  IF ~i.ok THEN [ok |-> FALSE]
             ELSE LET rest == parseProgram(Tail(ls))
                  IN  IF ~rest.ok THEN [ok |-> FALSE]
                      ELSE [ok |-> TRUE, p |-> <<i.instr>> \o rest.p]

(***************************************************************************)
(* struct State: pc, regs, input, output.  The reference to the shared     *)
(* Program is the variable program.                                        *)
(***************************************************************************)
State ==
    [pc |-> 0, regs |-> [c \in Lower |-> 0], input |-> <<>>, output |-> <<>>]

setRegister(s, r, v) == [s EXCEPT !.regs[r] = v]

getRegister(s, r) == s.regs[r]

(* evalOperand reading no register: a Register operand evaluates to 0. *)
evalOperand_literal(s, op) ==
    IF op.tag = "Value" THEN op.val ELSE 0

evalOperand(s, op) ==
    IF op.tag = "Value" THEN op.val ELSE getRegister(s, op.reg)

(* The % of C++ on int64_t: the quotient truncates towards zero, so the *)
(* result takes the sign of the dividend.  b # 0.                       *)
Abs(a) == IF a < 0 THEN 0 - a ELSE a

Rem(a, b) == IF a < 0 THEN 0 - (Abs(a) % Abs(b)) ELSE a % Abs(b)

(***************************************************************************)
(* Instr::execute, one operator per class.  Each yields the set of         *)
(* outcomes [s |-> the state after, r |-> the Intr returned]; the set has  *)
(* one element except for the undefined x % 0.                             *)
(***************************************************************************)
(* SndInstr::execute without its s.pc++. *)
SndInstr_execute_stuck(i, s) ==
    {[s |-> [s EXCEPT !.output = Append(@, evalOperand(s, i.x))],
      r |-> "Send"]}

SndInstr_execute(i, s) ==
    {[s |-> [s EXCEPT !.output = Append(@, evalOperand(s, i.x)),
                      !.pc = @ + 1],
      r |-> "Send"]}

SetInstr_execute(i, s) ==
    {[s |-> [setRegister(s, i.x, evalOperand(s, i.y)) EXCEPT !.pc = @ + 1],
      r |-> "None"]}

AddInstr_execute(i, s) ==
    {[s |-> [setRegister(s, i.x, evalOperand(s, RegisterOperand(i.x))
                                 + evalOperand(s, i.y))
             EXCEPT !.pc = @ + 1],
      r |-> "None"]}

MulInstr_execute(i, s) ==
    {[s |-> [setRegister(s, i.x, evalOperand(s, RegisterOperand(i.x))
                                 * evalOperand(s, i.y))
             EXCEPT !.pc = @ + 1],
      r |-> "None"]}

(* x % 0 is undefined: the division traps and the process is killed, or   *)
(* (a target whose divide yields 0 without trapping) x keeps its value.   *)
ModInstr_execute(i, s) ==
    LET a == evalOperand(s, RegisterOperand(i.x))
        b == evalOperand(s, i.y)
    IN  IF b = 0
        THEN {[s |-> s, r |-> "Fault"],
              [s |-> [setRegister(s, i.x, a) EXCEPT !.pc = @ + 1],
               r |-> "None"]}
        ELSE {[s |-> [setRegister(s, i.x, Rem(a, b)) EXCEPT !.pc = @ + 1],
               r |-> "None"]}

(* RcvInstr::execute with s.pc++ moved out of the else branch. *)
RcvInstr_execute_advancing(i, s) ==
    IF s.input = <<>>
    THEN {[s |-> [s EXCEPT !.pc = @ + 1], r |-> "Receive"]}
    ELSE {[s |-> [setRegister([s EXCEPT !.input = Tail(@)],
                              i.x, Head(s.input))
                  EXCEPT !.pc = @ + 1],
           r |-> "None"]}

(* RcvInstr::execute taking the newest value, back(), for front(). *)
RcvInstr_execute_back(i, s) ==
    IF s.input = <<>>
    THEN {[s |-> s, r |-> "Receive"]}
    ELSE {[s |-> [setRegister([s EXCEPT !.input = SubSeq(@, 1, Len(@) - 1)],
                              i.x, s.input[Len(s.input)])
                  EXCEPT !.pc = @ + 1],
           r |-> "None"]}

RcvInstr_execute(i, s) ==
    IF s.input = <<>>
    THEN {[s |-> s, r |-> "Receive"]}
    ELSE {[s |-> [setRegister([s EXCEPT !.input = Tail(@)],
                              i.x, Head(s.input))
                  EXCEPT !.pc = @ + 1],
           r |-> "None"]}

(* JgzInstr::execute testing >= 0 for > 0. *)
JgzInstr_execute_geq(i, s) ==
    IF evalOperand(s, i.x) >= 0
    THEN {[s |-> [s EXCEPT !.pc = @ + evalOperand(s, i.y)], r |-> "None"]}
    ELSE {[s |-> [s EXCEPT !.pc = @ + 1], r |-> "None"]}

(* JgzInstr::execute assigning the offset to pc instead of adding it. *)
JgzInstr_execute_absolute(i, s) ==
    IF evalOperand(s, i.x) > 0
    THEN {[s |-> [s EXCEPT !.pc = evalOperand(s, i.y)], r |-> "None"]}
    ELSE {[s |-> [s EXCEPT !.pc = @ + 1], r |-> "None"]}

JgzInstr_execute(i, s) ==
    IF evalOperand(s, i.x) > 0
    THEN {[s |-> [s EXCEPT !.pc = @ + evalOperand(s, i.y)], r |-> "None"]}
    ELSE {[s |-> [s EXCEPT !.pc = @ + 1], r |-> "None"]}

(* The virtual call i->execute(s). *)
execute(i, s) ==
    CASE i.op = "snd" -> SndInstr_execute(i, s)
      [] i.op = "set" -> SetInstr_execute(i, s)
      [] i.op = "add" -> AddInstr_execute(i, s)
      [] i.op = "mul" -> MulInstr_execute(i, s)
      [] i.op = "mod" -> ModInstr_execute(i, s)
      [] i.op = "rcv" -> RcvInstr_execute(i, s)
      [] i.op = "jgz" -> JgzInstr_execute(i, s)

(* executeOne advancing the program counter before the range test returns. *)
executeOne_advancing(s) ==
    IF s.pc < 0 \/ s.pc >= Len(program)
    THEN {[s |-> [s EXCEPT !.pc = @ + 1], r |-> "Stop"]}
    ELSE execute(program[s.pc + 1], s)

executeOne(s) ==
    IF s.pc < 0 \/ s.pc >= Len(program)
    THEN {[s |-> s, r |-> "Stop"]}
    ELSE execute(program[s.pc + 1], s)

(***************************************************************************)
(* The program texts readLines can deliver.                                *)
(***************************************************************************)
SndRcvLines ==
    << <<"s", "n", "d", " ", "p">>,
       <<"r", "c", "v", " ", "a">> >>

SevenLines ==
    << <<"s", "n", "d", " ", "1">>,
       <<"s", "n", "d", " ", "2">>,
       <<"s", "n", "d", " ", "p">>,
       <<"r", "c", "v", " ", "a">>,
       <<"r", "c", "v", " ", "b">>,
       <<"r", "c", "v", " ", "c">>,
       <<"r", "c", "v", " ", "d">> >>

JgzLines ==
    << <<"j", "g", "z", " ", "a", " ", "-", "1">> >>

EarlyStopLines ==
    << <<"j", "g", "z", " ", "p", " ", "3">>,
       <<"s", "e", "t", " ", "a", " ", "1">>,
       <<"s", "e", "t", " ", "a", " ", "2">> >>

LateSendLines ==
    << <<"j", "g", "z", " ", "p", " ", "2">>,
       <<"j", "g", "z", " ", "1", " ", "3">>,
       <<"s", "e", "t", " ", "a", " ", "1">>,
       <<"s", "n", "d", " ", "a">> >>

WakeLines ==
    << <<"j", "g", "z", " ", "p", " ", "2">>,
       <<"r", "c", "v", " ", "a">>,
       <<"s", "e", "t", " ", "b", " ", "4">>,
       <<"s", "n", "d", " ", "b">> >>

SameTurnLines ==
    << <<"j", "g", "z", " ", "p", " ", "2">>,
       <<"s", "n", "d", " ", "7">>,
       <<"r", "c", "v", " ", "a">> >>

UnevenLines ==
    << <<"j", "g", "z", " ", "p", " ", "2">>,
       <<"s", "n", "d", " ", "7">>,
       <<"s", "n", "d", " ", "8">>,
       <<"r", "c", "v", " ", "a">> >>

JumpRegLines ==
    << <<"j", "g", "z", " ", "a", " ", "a">>,
       <<"j", "g", "z", " ", "2", " ", "p">>,
       <<"s", "n", "d", " ", "a">> >>

BackLines ==
    << <<"j", "g", "z", " ", "1", " ", "-", "1">> >>

SpinLines ==
    << <<"j", "g", "z", " ", "1", " ", "0">> >>

ModLines ==
    << <<"s", "e", "t", " ", "a", " ", "-", "7">>,
       <<"m", "o", "d", " ", "a", " ", "3">>,
       <<"s", "n", "d", " ", "a">>,
       <<"m", "o", "d", " ", "a", " ", "p">> >>

ArithLines ==
    << <<"s", "e", "t", " ", "a", " ", "1", "0">>,
       <<"a", "d", "d", " ", "a", " ", "b">>,
       <<"m", "u", "l", " ", "a", " ", "-", "2">>,
       <<"s", "n", "d", " ", "a">>,
       <<"r", "c", "v", " ", "b">>,
       <<"j", "g", "z", " ", "b", " ", "-", "3">> >>

BadMnemonicLines ==
    << <<"x", "y", "z", " ", "a", " ", "b">> >>

MissingOperandLines ==
    << <<"s", "e", "t", " ", "a">> >>

MissingJumpLines ==
    << <<"j", "g", "z", " ", "a">> >>

RcvOnlyLines ==
    << <<"r", "c", "v", " ", "a">> >>

TabLines ==
    << <<"s", "n", "d", " ", "\t", "5">>,
       <<"s", "e", "t", " ", "a", " ", "\r", " ", "-", "3">> >>

BadRegisterLines ==
    << <<"s", "n", "d", " ", "A">> >>

LiteralTargetLines ==
    << <<"s", "e", "t", " ", "1", " ", "2">> >>

ShortLines ==
    << <<"s", "n", "d">> >>

Inputs ==
    {SndRcvLines, SevenLines, JgzLines, EarlyStopLines, LateSendLines,
     WakeLines, SameTurnLines, UnevenLines, JumpRegLines, BackLines, SpinLines, ModLines, ArithLines,
     BadMnemonicLines, MissingOperandLines, MissingJumpLines, RcvOnlyLines,
     TabLines,
     BadRegisterLines,
     LiteralTargetLines, ShortLines}

(***************************************************************************)
(* History kept beside the program's state: the values each machine        *)
(* pushed with snd and stored with rcv, with the turn of each, the number  *)
(* of executeOne calls on each machine and the number of them that         *)
(* returned Intr::Receive.  Index 1 is machine 0, index 2 is machine 1.    *)
(***************************************************************************)
LogSent(log, before, after, t) ==
    IF Len(after.output) > Len(before.output)
    THEN Append(log, [v |-> after.output[Len(after.output)], t |-> t])
    ELSE log

LogRecv(log, before, after, t) ==
    IF Len(after.input) < Len(before.input)
    THEN Append(log, [v |-> after.regs[program[before.pc + 1].x], t |-> t])
    ELSE log

(***************************************************************************)
(* solve_part2.  Init is the state once the program is parsed and s0, s1   *)
(* and p1SendCount are constructed; an exception thrown by the parser      *)
(* leaves main and ends the process.                                       *)
(***************************************************************************)
Init ==
    /\ lines \in Inputs
    /\ LET p == parseProgram(lines)
       IN  IF p.ok
           THEN program = p.p /\ at = "step0" /\ outcome = "running"
           ELSE program = <<>> /\ at = "done" /\ outcome = "exception"
    /\ s0 = setRegister(State, "p", 0)
    /\ s1 = setRegister(State, "p", 1)
    /\ p1SendCount = 0
    /\ r0 = "None"
    /\ r1 = "None"
    /\ turn = 0
    /\ steps = <<0, 0>>
    /\ blocked = <<0, 0>>
    /\ sentLog = <<(<<>>), (<<>>)>>
    /\ recvLog = <<(<<>>), (<<>>)>>

(***************************************************************************)
(* The loop of solve_part2 entered with machine states drawn from a        *)
(* bounded set rather than freshly constructed: every program counter from *)
(* one before the program to one past its end, a few values of register a, *)
(* and input queues of length 0 to 2.                                      *)
(***************************************************************************)
StepInputs ==
    {SndRcvLines, SevenLines, JgzLines, WakeLines, SameTurnLines, BackLines,
     ModLines, ArithLines, JumpRegLines, SpinLines}

StepQueues == {<<>>, <<5>>, <<5, 6>>}

StepValues == {-3, 0, 2}

InitStep ==
    /\ lines \in StepInputs
    /\ program = parseProgram(lines).p
    /\ \E c \in -1..(Len(program) + 1), a \in StepValues, q \in StepQueues :
          s0 = [setRegister(setRegister(State, "p", 0), "a", a)
                EXCEPT !.pc = c, !.input = q]
    /\ \E c \in -1..(Len(program) + 1), q \in StepQueues :
          s1 = [setRegister(State, "p", 1) EXCEPT !.pc = c, !.input = q]
    /\ at = "step0"
    /\ outcome = "running"
    /\ p1SendCount = 0
    /\ r0 = "None"
    /\ r1 = "None"
    /\ turn = 0
    /\ steps = <<0, 0>>
    /\ blocked = <<0, 0>>
    /\ sentLog = <<(<<>>), (<<>>)>>
    /\ recvLog = <<(<<>>), (<<>>)>>

(* Step0 with the drain of s0.output made right after the step. *)
Step0_delivering ==
    /\ at = "step0"
    /\ turn < MaxTurns
    /\ turn' = turn + 1
    /\ \E o \in executeOne(s0) :
          /\ s0' = [o.s EXCEPT !.output = <<>>]
          /\ s1' = [s1 EXCEPT !.input = @ \o o.s.output]
          /\ IF o.r = "Fault"
             THEN at' = "done" /\ outcome' = "fault" /\ r0' = r0
             ELSE at' = "step1" /\ outcome' = outcome /\ r0' = o.r
          /\ steps' = [steps EXCEPT ![1] = @ + 1]
          /\ blocked' = [blocked EXCEPT
                           ![1] = IF o.r = "Receive" THEN @ + 1 ELSE @]
          /\ sentLog' = [sentLog EXCEPT ![1] = LogSent(@, s0, o.s, turn')]
          /\ recvLog' = [recvLog EXCEPT ![1] = LogRecv(@, s0, o.s, turn')]
    /\ UNCHANGED <<lines, program, p1SendCount, r1>>

(* Step0 on a register array that is one global shared by both machines. *)
Step0_sharedregs ==
    /\ at = "step0"
    /\ turn < MaxTurns
    /\ turn' = turn + 1
    /\ \E o \in executeOne(s0) :
          /\ s0' = o.s
          /\ s1' = [s1 EXCEPT !.regs = o.s.regs]
          /\ IF o.r = "Fault"
             THEN at' = "done" /\ outcome' = "fault" /\ r0' = r0
             ELSE at' = "step1" /\ outcome' = outcome /\ r0' = o.r
          /\ steps' = [steps EXCEPT ![1] = @ + 1]
          /\ blocked' = [blocked EXCEPT
                           ![1] = IF o.r = "Receive" THEN @ + 1 ELSE @]
          /\ sentLog' = [sentLog EXCEPT ![1] = LogSent(@, s0, o.s, turn')]
          /\ recvLog' = [recvLog EXCEPT ![1] = LogRecv(@, s0, o.s, turn')]
    /\ UNCHANGED <<lines, program, p1SendCount, r1>>

(* auto r0 = executeOne(s0); *)
Step0 ==
    /\ at = "step0"
    /\ turn < MaxTurns
    /\ turn' = turn + 1
    /\ \E o \in executeOne(s0) :
          /\ s0' = o.s
          /\ IF o.r = "Fault"
             THEN at' = "done" /\ outcome' = "fault" /\ r0' = r0
             ELSE at' = "step1" /\ outcome' = outcome /\ r0' = o.r
          /\ steps' = [steps EXCEPT ![1] = @ + 1]
          /\ blocked' = [blocked EXCEPT
                           ![1] = IF o.r = "Receive" THEN @ + 1 ELSE @]
          /\ sentLog' = [sentLog EXCEPT ![1] = LogSent(@, s0, o.s, turn')]
          /\ recvLog' = [recvLog EXCEPT ![1] = LogRecv(@, s0, o.s, turn')]
    /\ UNCHANGED <<lines, program, s1, p1SendCount, r1>>

(* Step1 skipping the step of s1 once r0 is Intr::Stop. *)
Step1_shortcircuit ==
    /\ at = "step1"
    /\ IF r0 = "Stop"
       THEN /\ at' = "drain0"
            /\ r1' = "Stop"
            /\ UNCHANGED <<s1, outcome, steps, blocked, sentLog, recvLog>>
       ELSE \E o \in executeOne(s1) :
              /\ s1' = o.s
              /\ IF o.r = "Fault"
                 THEN at' = "done" /\ outcome' = "fault" /\ r1' = r1
                 ELSE at' = "drain0" /\ outcome' = outcome /\ r1' = o.r
              /\ steps' = [steps EXCEPT ![2] = @ + 1]
              /\ blocked' = [blocked EXCEPT
                               ![2] = IF o.r = "Receive" THEN @ + 1 ELSE @]
              /\ sentLog' = [sentLog EXCEPT ![2] = LogSent(@, s1, o.s, turn)]
              /\ recvLog' = [recvLog EXCEPT ![2] = LogRecv(@, s1, o.s, turn)]
    /\ UNCHANGED <<lines, program, s0, p1SendCount, r0, turn>>

(* auto r1 = executeOne(s1); *)
Step1 ==
    /\ at = "step1"
    /\ \E o \in executeOne(s1) :
          /\ s1' = o.s
          /\ IF o.r = "Fault"
             THEN at' = "done" /\ outcome' = "fault" /\ r1' = r1
             ELSE at' = "drain0" /\ outcome' = outcome /\ r1' = o.r
          /\ steps' = [steps EXCEPT ![2] = @ + 1]
          /\ blocked' = [blocked EXCEPT
                           ![2] = IF o.r = "Receive" THEN @ + 1 ELSE @]
          /\ sentLog' = [sentLog EXCEPT ![2] = LogSent(@, s1, o.s, turn)]
          /\ recvLog' = [recvLog EXCEPT ![2] = LogRecv(@, s1, o.s, turn)]
    /\ UNCHANGED <<lines, program, s0, p1SendCount, r0, turn>>

(* A drain that pushes each value at the front of the input queue. *)
RECURSIVE drain_lifo(_, _)
drain_lifo(src, dst) ==
    IF src = <<>> THEN dst
    ELSE drain_lifo(Tail(src), <<Head(src)>> \o dst)

(* A drain that pops the output queue without pushing. *)
drain_dropping(src, dst) == dst

(* A drain loop: push the front of src onto dst, pop it, until src is empty. *)
RECURSIVE drain(_, _)
drain(src, dst) ==
    IF src = <<>> THEN dst
    ELSE drain(Tail(src), Append(dst, Head(src)))

(* p1SendCount++ once per value the second loop moves. *)
countDrained(n, src) == n + Len(src)

(* Drain0 with the p1SendCount++ of the other loop. *)
Drain0_counting ==
    /\ at = "drain0"
    /\ p1SendCount' = p1SendCount + Len(s0.output)
    /\ s1' = [s1 EXCEPT !.input = s1.input \o s0.output]
    /\ s0' = [s0 EXCEPT !.output = <<>>]
    /\ at' = "drain1"
    /\ UNCHANGED <<lines, program, r0, r1, outcome, turn,
                   steps, blocked, sentLog, recvLog>>

(* while(!s0.output.empty()) { s1.input.push(...); s0.output.pop(); } *)
Drain0 ==
    /\ at = "drain0"
    /\ s1' = [s1 EXCEPT !.input = drain(s0.output, @)]
    /\ s0' = [s0 EXCEPT !.output = <<>>]
    /\ at' = "drain1"
    /\ UNCHANGED <<lines, program, p1SendCount, r0, r1, outcome, turn,
                   steps, blocked, sentLog, recvLog>>

(* Drain1 copying the values of s1.output without popping them. *)
Drain1_copy ==
    /\ at = "drain1"
    /\ p1SendCount' = countDrained(p1SendCount, s1.output)
    /\ s0' = [s0 EXCEPT !.input = drain(s1.output, @)]
    /\ s1' = s1
    /\ at' = "check"
    /\ UNCHANGED <<lines, program, r0, r1, outcome, turn, steps, blocked,
                   sentLog, recvLog>>

(* Drain1 pushing onto s1.input, the queue named in the loop above it. *)
Drain1_wrongqueue ==
    /\ at = "drain1"
    /\ p1SendCount' = countDrained(p1SendCount, s1.output)
    /\ s1' = [s1 EXCEPT !.input = drain(s1.output, @), !.output = <<>>]
    /\ s0' = s0
    /\ at' = "check"
    /\ UNCHANGED <<lines, program, r0, r1, outcome, turn, steps, blocked,
                   sentLog, recvLog>>

(* while(!s1.output.empty()) { p1SendCount++; s0.input.push(...); ... } *)
Drain1 ==
    /\ at = "drain1"
    /\ p1SendCount' = countDrained(p1SendCount, s1.output)
    /\ s0' = [s0 EXCEPT !.input = drain(s1.output, @)]
    /\ s1' = [s1 EXCEPT !.output = <<>>]
    /\ at' = "check"
    /\ UNCHANGED <<lines, program, r0, r1, outcome, turn, steps, blocked,
                   sentLog, recvLog>>

(* The deadlock test with || in place of &&. *)
isDeadlock_either(a, b) == a = "Receive" \/ b = "Receive"

(* The deadlock test with Intr::Stop written for the second Intr::Receive. *)
isDeadlock_mixed(a, b) == a = "Receive" /\ b = "Stop"

(* The deadlock test looking at r0 only. *)
isDeadlock_first(a, b) == a = "Receive"

(* if(r0 == Intr::Receive && r1 == Intr::Receive) *)
isDeadlock(a, b) == a = "Receive" /\ b = "Receive"

(* if(r0 == Intr::Stop || r1 == Intr::Stop) *)
isStopped(a, b) == a = "Stop" \/ b = "Stop"

(* The two tests that end the loop, in the order the code makes them. *)
Check ==
    /\ at = "check"
    /\ IF isDeadlock(r0, r1)
       THEN at' = "done" /\ outcome' = "deadlock"
       ELSE IF isStopped(r0, r1)
            THEN at' = "done" /\ outcome' = "halted"
            ELSE at' = "step0" /\ outcome' = outcome
    /\ UNCHANGED <<lines, program, s0, s1, p1SendCount, r0, r1, turn,
                   steps, blocked, sentLog, recvLog>>

Next == Step0 \/ Step1 \/ Drain0 \/ Drain1 \/ Check

Spec == Init /\ [][Next]_vars

SpecStep == InitStep /\ [][Next]_vars

(* The loop is sequential code: while a statement can run, one does. *)
SpecFair == Init /\ [][Next]_vars /\ WF_vars(Next)

(***************************************************************************)
(* Properties.                                                             *)
(***************************************************************************)
InProgram(s) == s.pc >= 0 /\ s.pc < Len(program)

Vals(log) == [k \in 1..Len(log) |-> log[k].v]

IsPrefix(a, b) == Len(a) <= Len(b) /\ SubSeq(b, 1, Len(a)) = a

Ended == outcome \in {"deadlock", "halted"}

AtRcv(s) == InProgram(s) /\ program[s.pc + 1].op = "rcv"

(* C1: deadlock is reported only in a turn in which the step of M0 and the *)
(* step of M1 of that same turn both returned Intr::Receive, and only      *)
(* after both drains of that turn: both machines have been stepped exactly *)
(* turn times, both output queues are empty and every value sent is either *)
(* received or waiting in the partner's input queue.                       *)
DeadlockOnlyWhenBothBlocked ==
    outcome = "deadlock" =>
        /\ at = "done"
        /\ r0 = "Receive" /\ r1 = "Receive"
        /\ steps = <<turn, turn>>
        /\ blocked[1] >= 1 /\ blocked[2] >= 1
        /\ s0.output = <<>> /\ s1.output = <<>>
        /\ Len(sentLog[1]) = Len(recvLog[2]) + Len(s1.input)
        /\ Len(sentLog[2]) = Len(recvLog[1]) + Len(s0.input)

DeadlockReported ==
    /\ outcome = "deadlock"
    /\ lines = SevenLines
    /\ turn = 7
    /\ p1SendCount = 3

(* C2: whenever the run ends as halted ("Both programs stopped normally"), *)
(* the program counters of M0 and of M1 are both outside the program.      *)
HaltedMeansBothOutside ==
    outcome = "halted" => ~InProgram(s0) /\ ~InProgram(s1)

(* C3: a step of a machine whose program counter is < 0 or >= the program  *)
(* length returns Intr::Stop and leaves pc, registers, input and output of *)
(* that machine as they were.                                              *)
HaltNoMutation ==
    [][ /\ (at = "step0" /\ at' # "step0" /\ ~InProgram(s0)
              => r0' = "Stop" /\ s0' = s0 /\ at' = "step1")
        /\ (at = "step1" /\ at' # "step1" /\ ~InProgram(s1)
              => r1' = "Stop" /\ s1' = s1 /\ at' = "drain0") ]_vars

HaltedBelowZero ==
    /\ at = "step1"
    /\ r0 = "Stop"
    /\ s0.pc < 0
    /\ s0.input = <<5, 6>>
    /\ s0.regs["a"] = 2

(* C4: executeOne on a machine positioned on rcv with an empty input queue *)
(* returns Intr::Receive and the same state, and so does executeOne on the *)
(* state it returns, and on the state that one returns.                    *)
ReceiveBlocksIdempotent ==
    \A s \in {s0, s1} :
        AtRcv(s) /\ s.input = <<>> =>
            /\ executeOne(s) = {[s |-> s, r |-> "Receive"]}
            /\ \A o \in executeOne(s) :
                  /\ o.s.pc = s.pc
                  /\ \A o2 \in executeOne(o.s) :
                        /\ o2 = o
                        /\ \A o3 \in executeOne(o2.s) : o3 = o

BlockedTwice ==
    /\ at = "step1"
    /\ r0 = "Receive"
    /\ blocked[1] >= 2
    /\ AtRcv(s0)
    /\ s0.input = <<>>

(* C5: in each direction the values the receiver stored with rcv are a     *)
(* prefix of the values the sender pushed with snd, and the values not yet *)
(* received are, in order, the partner's input queue followed by the       *)
(* sender's output queue.                                                  *)
FifoRoundTrip ==
    /\ IsPrefix(Vals(recvLog[2]), Vals(sentLog[1]))
    /\ IsPrefix(Vals(recvLog[1]), Vals(sentLog[2]))
    /\ Vals(sentLog[1]) = Vals(recvLog[2]) \o s1.input \o s0.output
    /\ Vals(sentLog[2]) = Vals(recvLog[1]) \o s0.input \o s1.output

ThreeReceivedInOrder ==
    /\ Vals(sentLog[1]) = <<1, 2, 0>>
    /\ Vals(recvLog[2]) = <<1, 2, 0>>
    /\ Vals(sentLog[2]) = <<1, 2, 1>>
    /\ Vals(recvLog[1]) = <<1, 2, 1>>

(* C6: the k-th value a machine receives was sent by its partner in an     *)
(* earlier turn than the turn of the rcv that stores it, in both           *)
(* directions: a send of turn t is received in turn t+1 at the earliest.   *)
SendNotVisibleSameTurn ==
    /\ \A k \in 1..Len(recvLog[2]) :
          k <= Len(sentLog[1]) /\ recvLog[2][k].t > sentLog[1][k].t
    /\ \A k \in 1..Len(recvLog[1]) :
          k <= Len(sentLog[2]) /\ recvLog[1][k].t > sentLog[2][k].t

(* M1 ran rcv on an empty queue in the turn of M0's send, got it a turn later. *)
ReceivedTurnAfterSend ==
    /\ lines = SameTurnLines
    /\ sentLog[1] = <<[v |-> 7, t |-> 2]>>
    /\ recvLog[2] = <<[v |-> 7, t |-> 3]>>
    /\ blocked[2] = 1

(* C7: p1SendCount is at every point the number of snd executed by M1      *)
(* less the values still in its output queue, whatever M0 has sent, and    *)
(* once the run has ended it is the number of snd executed by M1.          *)
CountIsM1Sends ==
    /\ p1SendCount = Len(sentLog[2]) - Len(s1.output)
    /\ Ended => p1SendCount = Len(sentLog[2])

EndedWithUnevenSends ==
    /\ Ended
    /\ Len(sentLog[1]) = 2
    /\ Len(sentLog[2]) = 1
    /\ p1SendCount = 1

(* C8: in every turn M1 is stepped once after M0, also when M0's step      *)
(* returned Intr::Stop; when the run ends as halted the output queue of M1 *)
(* is drained and every snd of M1 is counted.                              *)
M1StepsEveryTurn ==
    /\ at \in {"drain0", "drain1", "check"} \/ Ended => steps = <<turn, turn>>
    /\ at = "step1" => steps = <<turn, turn - 1>>
    /\ outcome = "halted" =>
          /\ s1.output = <<>>
          /\ p1SendCount = Len(sentLog[2])
          /\ Len(sentLog[2]) = Len(recvLog[1]) + Len(s0.input)

SentInTurnM0Halted ==
    /\ outcome = "halted"
    /\ r0 = "Stop"
    /\ r1 = "Send"
    /\ sentLog[2] = <<[v |-> 1, t |-> turn]>>
    /\ s0.input = <<1>>
    /\ p1SendCount = 1

(* C9: the run of "snd p", "rcv a" lasts three turns and ends as halted,   *)
(* not as deadlock, with both program counters at 2, register a of M0      *)
(* equal to 1, register a of M1 equal to 0 and p1SendCount equal to 1.     *)
SndRcvResult ==
    lines = SndRcvLines =>
        /\ outcome \in {"running", "halted"}
        /\ turn <= 3
        /\ at = "done" =>
              /\ outcome = "halted"
              /\ s0.pc = 2 /\ s1.pc = 2
              /\ s0.regs["a"] = 1
              /\ s1.regs["a"] = 0
              /\ p1SendCount = 1

SndRcvEnded ==
    /\ lines = SndRcvLines
    /\ at = "done"
    /\ turn = 3

(* C10, as stated: in the run of "snd p", "rcv a" each machine's step      *)
(* returns Intr::Receive at least once before its rcv succeeds.            *)
SndRcvEachBlocks ==
    lines = SndRcvLines /\ at = "done" =>
        blocked[1] >= 1 /\ blocked[2] >= 1

(* C10, amended: in the run of "snd p", "rcv a" both machines send in turn *)
(* 1, the drains of turn 1 deliver both values, and each rcv succeeds in   *)
(* turn 2 at its first execution: no step returns Intr::Receive.           *)
SndRcvNeverBlocks ==
    lines = SndRcvLines =>
        /\ blocked = <<0, 0>>
        /\ r0 # "Receive" /\ r1 # "Receive"
        /\ \A i \in {1, 2} :
              /\ \A k \in 1..Len(sentLog[i]) : sentLog[i][k].t = 1
              /\ \A k \in 1..Len(recvLog[i]) : recvLog[i][k].t = 2
        /\ turn >= 2 /\ at # "step1" => Len(recvLog[1]) = 1
        /\ turn >= 2 /\ at \notin {"step0", "step1"} => Len(recvLog[2]) = 1

SndRcvBothReceived ==
    /\ lines = SndRcvLines
    /\ recvLog[1] = <<[v |-> 1, t |-> 2]>>
    /\ recvLog[2] = <<[v |-> 0, t |-> 2]>>
    /\ blocked = <<0, 0>>

(* C11: in the run of "snd 1", "snd 2", "snd p", "rcv a", "rcv b",         *)
(* "rcv c", "rcv d" each machine executes three snd, of 1, 2 and its own   *)
(* p, and stores the partner's three values in order in a, b and c, and    *)
(* p1SendCount is 3 when the run ends.                                     *)
SevenResult ==
    lines = SevenLines =>
        /\ IsPrefix(Vals(sentLog[1]), <<1, 2, 0>>)
        /\ IsPrefix(Vals(sentLog[2]), <<1, 2, 1>>)
        /\ IsPrefix(Vals(recvLog[1]), <<1, 2, 1>>)
        /\ IsPrefix(Vals(recvLog[2]), <<1, 2, 0>>)
        /\ at = "done" =>
              /\ Ended
              /\ Len(sentLog[1]) = 3 /\ Len(sentLog[2]) = 3
              /\ Len(recvLog[1]) = 3 /\ Len(recvLog[2]) = 3
              /\ s0.regs["a"] = 1 /\ s0.regs["b"] = 2 /\ s0.regs["c"] = 1
              /\ s1.regs["a"] = 1 /\ s1.regs["b"] = 2 /\ s1.regs["c"] = 0
              /\ s0.regs["d"] = 0 /\ s1.regs["d"] = 0
              /\ p1SendCount = 3

SevenEnded ==
    /\ lines = SevenLines
    /\ at = "done"
    /\ s0.regs["c"] = 1
    /\ s1.regs["b"] = 2

(* C12, as stated: in the run of the seven-line program no machine ends    *)
(* the run on a rcv with an empty input queue and the run does not end as  *)
(* deadlock.                                                               *)
SevenNeverStuck ==
    lines = SevenLines =>
        /\ outcome # "deadlock"
        /\ at = "done" =>
              /\ ~(AtRcv(s0) /\ s0.input = <<>>)
              /\ ~(AtRcv(s1) /\ s1.input = <<>>)

(* C12, amended: in the run of the seven-line program the first three rcv  *)
(* of each machine succeed at their first execution; both machines then    *)
(* block on the fourth, "rcv d", with empty input queues, once each, and   *)
(* the run ends as deadlock in turn 7.                                     *)
SevenEndsInDeadlock ==
    lines = SevenLines =>
        /\ turn <= 7
        /\ outcome \in {"running", "deadlock"}
        /\ \A i \in {1, 2} : blocked[i] <= 1
        /\ blocked[1] = 1 => s0.pc = 6 /\ s0.input = <<>> /\ turn = 7
        /\ blocked[2] = 1 => s1.pc = 6 /\ s1.input = <<>> /\ turn = 7
        /\ at = "done" =>
              /\ outcome = "deadlock"
              /\ blocked = <<1, 1>>
              /\ AtRcv(s0) /\ AtRcv(s1)
              /\ program[s0.pc + 1].x = "d"
              /\ program[s1.pc + 1].x = "d"

SevenStuckOnFourth ==
    /\ lines = SevenLines
    /\ outcome = "deadlock"
    /\ blocked = <<1, 1>>
    /\ s0.pc = 6 /\ s1.pc = 6
    /\ Len(recvLog[1]) = 3 /\ Len(recvLog[2]) = 3

(* C13: in the run of "jgz a -1", where a is 0 on both machines, the step  *)
(* of turn 1 of each machine does not jump, returns Intr::None and leaves  *)
(* the program counter at 1; both steps of turn 2 return Intr::Stop and    *)
(* the run ends in turn 2 as halted with p1SendCount 0.                    *)
JgzNotTaken ==
    lines = JgzLines =>
        /\ turn <= 2
        /\ s0.regs["a"] = 0 /\ s1.regs["a"] = 0
        /\ s0.pc = (IF steps[1] >= 1 THEN 1 ELSE 0)
        /\ s1.pc = (IF steps[2] >= 1 THEN 1 ELSE 0)
        /\ steps[1] = 1 => r0 = "None"
        /\ steps[2] = 1 /\ at # "step1" => r1 = "None"
        /\ steps[1] = 2 => r0 = "Stop"
        /\ steps[2] = 2 => r1 = "Stop"
        /\ p1SendCount = 0
        /\ outcome \in {"running", "halted"}
        /\ at = "done" => outcome = "halted" /\ turn = 2

JgzEnded ==
    /\ lines = JgzLines
    /\ outcome = "halted"
    /\ r0 = "Stop" /\ r1 = "Stop"
    /\ s0.pc = 1 /\ s1.pc = 1

TwoOperandMnemonics ==
    {<<"s", "e", "t">>, <<"a", "d", "d">>, <<"m", "u", "l">>,
     <<"m", "o", "d">>, <<"j", "g", "z">>}

(* The operand tokens of a line: what follows the mnemonic, cut at blanks. *)
Blanks(l) == {k \in 1..Len(l) : l[k] = " "}

HasOneOperand(l) ==
    /\ Len(l) >= 5
    /\ Blanks(l) = {4}

(* C14: a line whose mnemonic is set, add, mul, mod or jgz and that        *)
(* carries one operand only is rejected by the parser: parseInstr throws,  *)
(* no program is built and no instruction is run.                          *)
MissingOperandRejected ==
    \A k \in 1..Len(lines) :
        SubSeq(lines[k], 1, 3) \in TwoOperandMnemonics /\ HasOneOperand(lines[k])
            => /\ ~parseInstr(lines[k]).ok
               /\ outcome = "exception"
               /\ program = <<>>

AtOp(s, ops) == InProgram(s) /\ program[s.pc + 1].op \in ops

(* The value of an operand in state s: the literal, or the register's. *)
ValueIn(s, op) == IF op.tag = "Register" THEN s.regs[op.reg] ELSE op.val

JumpTarget(s) ==
    LET i == program[s.pc + 1]
    IN  IF ValueIn(s, i.x) > 0 THEN s.pc + ValueIn(s, i.y) ELSE s.pc + 1

(* C15: a step of a machine positioned on jgz x y returns Intr::None,      *)
(* leaves every register and both queues as they were, and sets pc to      *)
(* pc + (value of y) when the value of x is > 0 and to pc + 1 otherwise,   *)
(* for literal and register operands alike.                                *)
JgzSemantics ==
    [][ /\ (at = "step0" /\ at' # "step0" /\ AtOp(s0, {"jgz"})
              => /\ r0' = "None"
                 /\ s0' = [s0 EXCEPT !.pc = JumpTarget(s0)])
        /\ (at = "step1" /\ at' # "step1" /\ AtOp(s1, {"jgz"})
              => /\ r1' = "None"
                 /\ s1' = [s1 EXCEPT !.pc = JumpTarget(s1)]) ]_vars

(* M0 took "jgz a a" with a = 2 from pc 0 to pc 2, its queue untouched. *)
JumpedByRegister ==
    /\ lines = JumpRegLines
    /\ at = "step1"
    /\ steps = <<1, 0>>
    /\ r0 = "None"
    /\ s0.pc = 2
    /\ s0.regs["a"] = 2
    /\ s0.input = <<5, 6>>

Arithmetic == {"set", "add", "mul", "mod"}

(* t differs from s at most in pc and in register x. *)
OnlyTarget(s, t, x) ==
    /\ t.input = s.input
    /\ t.output = s.output
    /\ \A c \in Lower \ {x} : t.regs[c] = s.regs[c]

(* What a step on set, add, mul or mod may do to its own machine: nothing  *)
(* but register x changes, and when the step returns (the division of mod  *)
(* did not trap) it returns Intr::None with pc advanced by 1.              *)
ArithmeticFrame(s, t, r, returned) ==
    AtOp(s, Arithmetic) =>
        /\ OnlyTarget(s, t, program[s.pc + 1].x)
        /\ returned => r = "None" /\ t.pc = s.pc + 1

(* C16: a step of M0 leaves pc, registers and both queues of M1 as they    *)
(* were, and a step of M1 those of M0; a step on set, add, mul or mod      *)
(* changes, in its own machine, register x and pc (by 1) only; a drain     *)
(* changes the output queue it empties and the input queue it fills and    *)
(* nothing else, and the test that ends the turn changes neither machine.  *)
StepFrame ==
    [][ /\ (at = "step0" /\ at' # "step0"
              => /\ s1' = s1
                 /\ ArithmeticFrame(s0, s0', r0', at' = "step1"))
        /\ (at = "step1" /\ at' # "step1"
              => /\ s0' = s0
                 /\ ArithmeticFrame(s1, s1', r1', at' = "drain0"))
        /\ (at = "drain0" /\ at' # "drain0"
              => /\ s0' = [s0 EXCEPT !.output = s0'.output]
                 /\ s1' = [s1 EXCEPT !.input = s1'.input])
        /\ (at = "drain1" /\ at' # "drain1"
              => /\ s1' = [s1 EXCEPT !.output = s1'.output]
                 /\ s0' = [s0 EXCEPT !.input = s0'.input])
        /\ (at = "check" => s0' = s0 /\ s1' = s1) ]_vars

(* M0 ran "mul a -2" on a = 2 beside a partner holding a queue of its own. *)
MultipliedInPlace ==
    /\ lines = ArithLines
    /\ at = "step1"
    /\ steps = <<1, 0>>
    /\ s0.pc = 3
    /\ s0.regs["a"] = -4
    /\ s0.input = <<5, 6>>
    /\ s1.input = <<5>>
    /\ s1.regs["a"] = 0

(* C17: when deadlock is reported both input queues and both output queues *)
(* are empty and both machines are positioned on rcv, and one more turn of *)
(* the loop (step of M0, step of M1, both drains) returns Intr::Receive    *)
(* twice and yields the same two machine states and the same p1SendCount,  *)
(* so that any number of further turns would.                              *)
DeadlockIsGenuine ==
    outcome = "deadlock" =>
        /\ s0.input = <<>> /\ s1.input = <<>>
        /\ s0.output = <<>> /\ s1.output = <<>>
        /\ AtRcv(s0) /\ AtRcv(s1)
        /\ \A o0 \in executeOne(s0), o1 \in executeOne(s1) :
              /\ o0.r = "Receive" /\ o1.r = "Receive"
              /\ [o0.s EXCEPT !.output = <<>>,
                              !.input = drain(o1.s.output, @)] = s0
              /\ [o1.s EXCEPT !.output = <<>>,
                              !.input = drain(o0.s.output, @)] = s1
              /\ countDrained(p1SendCount, o1.s.output) = p1SendCount

(* Both machines stored a value with "rcv c", then blocked on "rcv d". *)
DeadlockAfterReceive ==
    /\ outcome = "deadlock"
    /\ lines = SevenLines
    /\ turn = 2
    /\ s0.regs["c"] = 5
    /\ s1.regs["c"] = 5

AfterDrains == at \in {"check", "step0"} \/ Ended

(* C18: an output queue never holds more than one value; after the drains  *)
(* of a turn both output queues are empty, and in each direction the       *)
(* number of snd executed by the sender is the number of rcv that stored a *)
(* value in the partner plus the length of the partner's input queue.      *)
MessageConservation ==
    /\ Len(s0.output) <= 1
    /\ Len(s1.output) <= 1
    /\ at = "drain1" => s0.output = <<>>
    /\ AfterDrains =>
          /\ s0.output = <<>> /\ s1.output = <<>>
          /\ Len(sentLog[1]) = Len(recvLog[2]) + Len(s1.input)
          /\ Len(sentLog[2]) = Len(recvLog[1]) + Len(s0.input)

(* Two values received, one still queued, in each direction. *)
ThreeSentTwoReceived ==
    /\ at = "check"
    /\ Len(sentLog[1]) = 3 /\ Len(recvLog[2]) = 2 /\ Len(s1.input) = 1
    /\ Len(sentLog[2]) = 3 /\ Len(recvLog[1]) = 2 /\ Len(s0.input) = 1

(* Machine i (1 for M0, 2 for M1) executed a snd in turn t. *)
SentIn(i, t) == \E k \in 1..Len(sentLog[i]) : sentLog[i][k].t = t

SentValue(i, t) ==
    sentLog[i][CHOOSE k \in 1..Len(sentLog[i]) : sentLog[i][k].t = t].v

(* The step from s to t is the retried rcv storing v: same instruction,    *)
(* v alone in the queue before, the queue empty and pc advanced after.     *)
Woken(s, t, r, v) ==
    /\ AtRcv(s)
    /\ s.input = <<v>>
    /\ r = "None"
    /\ t = [s EXCEPT !.pc = @ + 1, !.input = <<>>,
                     !.regs[program[s.pc + 1].x] = v]

(* C19: when a machine's step returned Intr::Receive in a turn in which    *)
(* the partner executed a snd and the loop went on, the machine's step of  *)
(* the next turn runs the same rcv, stores exactly the value sent, moves   *)
(* pc on by 1 and returns Intr::None.                                      *)
NoLostWakeup ==
    [][ /\ (/\ at = "step0" /\ at' # "step0"
            /\ r0 = "Receive" /\ SentIn(2, turn)
            => Woken(s0, s0', r0', SentValue(2, turn)))
        /\ (/\ at = "step1" /\ at' # "step1"
            /\ r1 = "Receive" /\ SentIn(1, turn - 1)
            => Woken(s1, s1', r1', SentValue(1, turn - 1))) ]_vars

(* M0 blocked in turns 2 and 3, M1 sent 4 in turn 3, M0 stored it in turn 4. *)
WokenNextTurn ==
    /\ lines = WakeLines
    /\ at = "step1"
    /\ turn = 4
    /\ blocked[1] = 2
    /\ sentLog[2] = <<[v |-> 4, t |-> 3]>>
    /\ recvLog[1] = <<[v |-> 4, t |-> 4]>>
    /\ s0.regs["a"] = 4
    /\ s0.pc = 2

NoJgz == \A k \in 1..Len(program) : program[k].op # "jgz"

(* The machine whose step was the last one taken: s0 between the step of *)
(* s0 and the step of s1 of a turn, s1 otherwise.                        *)
LastStepped == IF steps[1] > steps[2] THEN s0 ELSE s1

(* Machine state s is positioned on a mod whose divisor evaluates to 0. *)
ModByZero(s) ==
    /\ AtOp(s, {"mod"})
    /\ ValueIn(s, program[s.pc + 1].y) = 0

(* The loop of a program without jgz takes at most 2 * length + 1 turns. *)
JumpFreeTurnBound == NoJgz => turn <= 2 * Len(program) + 1

(* The run of "jgz 1 0" never ends: every turn leaves both machines as *)
(* constructed, at pc 0.                                               *)
SpinNeverEnds ==
    lines = SpinLines =>
        /\ at # "done"
        /\ s0 = setRegister(State, "p", 0)
        /\ s1 = setRegister(State, "p", 1)
        /\ p1SendCount = 0


====
